---- MODULE Spec2Model ----
(***************************************************************************)
(* Model of src/src/components/SentimentDemo.tsx: the React component      *)
(* SentimentDemo (state comment / result / loading, the handlers onChange  *)
(* and analyzeSentiment, the 600 ms timer callback) and the classifier     *)
(* detectSentiment it calls.                                               *)
(*                                                                         *)
(* Representation.  A JavaScript string is a sequence of Unicode code      *)
(* points; a code point is written as itself when it is printable ASCII    *)
(* and as "U+XXXX" otherwise.  A JavaScript number that is not an integer  *)
(* (score, confidences) is a fixed-point integer: scores in thousandths,   *)
(* confidences in millionths; Math.sqrt is the integer square root of the  *)
(* thousandths, so a confidence is exact up to that truncation.            *)
(***************************************************************************)
EXTENDS Integers, Sequences, FiniteSets

VARIABLES comment, result, loading, timers, toast, arg, detected

vars == <<comment, result, loading, timers, toast, arg, detected>>

(***************************************************************************)
(* Code points                                                             *)
(***************************************************************************)
SP == "U+0020"

\* What String.prototype.trim removes and what \s matches (the members of
\* that class that the inputs below use).
Whitespace == {"U+0020", "U+0009", "U+000A", "U+000D", "U+00A0"}

UpperCase ==
    <<"A", "B", "C", "D", "E", "F", "G", "H", "I", "J", "K", "L", "M",
      "N", "O", "P", "Q", "R", "S", "T", "U", "V", "W", "X", "Y", "Z">>

LowerCase ==
    <<"a", "b", "c", "d", "e", "f", "g", "h", "i", "j", "k", "l", "m",
      "n", "o", "p", "q", "r", "s", "t", "u", "v", "w", "x", "y", "z">>

Digits == {"0", "1", "2", "3", "4", "5", "6", "7", "8", "9"}

\* Code points above U+FFFF take two UTF-16 code units.
Astral ==
    { "U+1F60A", "U+1F603", "U+1F604", "U+1F601", "U+1F642", "U+1F600",
      "U+1F60D", "U+1F970", "U+1F618", "U+1F917", "U+1F389", "U+1F44D",
      "U+1F496", "U+1F31F", "U+1F4AF", "U+1F622", "U+1F62D", "U+1F61E",
      "U+1F614", "U+1F641", "U+1F623", "U+1F616", "U+1F62B", "U+1F629",
      "U+1F624", "U+1F620", "U+1F621", "U+1F494", "U+1F44E", "U+1F610",
      "U+1F611", "U+1F914", "U+1F636", "U+1F644", "U+1F937" }

\* s.toLowerCase(), one code point at a time
toLowerCase(c) ==
    IF \E i \in 1..Len(UpperCase) : UpperCase[i] = c
    THEN LowerCase[CHOOSE i \in 1..Len(UpperCase) : UpperCase[i] = c]
    ELSE c

\* text.trim(): leading and trailing white space removed
RECURSIVE trimStart(_)
trimStart(s) ==
    IF s # <<>> /\ Head(s) \in Whitespace THEN trimStart(Tail(s)) ELSE s

RECURSIVE trimEnd(_)
trimEnd(s) ==
    IF s # <<>> /\ s[Len(s)] \in Whitespace
    THEN trimEnd(SubSeq(s, 1, Len(s) - 1))
    ELSE s

trim(s) == trimEnd(trimStart(s))

(***************************************************************************)
(* The fixed sets of detectSentiment                                       *)
(***************************************************************************)
positiveEmojis ==
    { <<"U+1F60A">>, <<"U+1F603">>, <<"U+1F604">>, <<"U+1F601">>,
      <<"U+1F642">>, <<"U+1F600">>, <<"U+1F60D">>, <<"U+1F970">>,
      <<"U+1F618">>, <<"U+1F917">>, <<"U+1F389">>, <<"U+1F44D">>,
      <<"U+2764", "U+FE0F">>, <<"U+1F496">>, <<"U+2728">>, <<"U+1F31F">>,
      <<"U+1F4AF">> }

negativeEmojis ==
    { <<"U+1F622">>, <<"U+1F62D">>, <<"U+1F61E">>, <<"U+1F614">>,
      <<"U+2639", "U+FE0F">>, <<"U+1F641">>, <<"U+1F623">>, <<"U+1F616">>,
      <<"U+1F62B">>, <<"U+1F629">>, <<"U+1F624">>, <<"U+1F620">>,
      <<"U+1F621">>, <<"U+1F494">>, <<"U+1F44E">> }

neutralEmojis ==
    { <<"U+1F610">>, <<"U+1F611">>, <<"U+1F914">>, <<"U+1F636">>,
      <<"U+1F644">>, <<"U+1F937">> }

positiveWords ==
    { <<"g", "o", "o", "d">>, <<"g", "r", "e", "a", "t">>, <<"a", "w", "e", "s", "o", "m", "e">>, <<"a", "m", "a", "z", "i", "n", "g">>,
      <<"l", "o", "v", "e">>, <<"l", "o", "v", "e", "d">>, <<"l", "i", "k", "e">>, <<"l", "i", "k", "e", "d">>,
      <<"f", "a", "n", "t", "a", "s", "t", "i", "c">>, <<"e", "x", "c", "e", "l", "l", "e", "n", "t">>, <<"b", "e", "s", "t">>, <<"n", "i", "c", "e">>,
      <<"h", "a", "p", "p", "y">>, <<"j", "o", "y">>, <<"g", "l", "a", "d">>, <<"w", "o", "n", "d", "e", "r", "f", "u", "l">>,
      <<"h", "e", "l", "p", "f", "u", "l">>, <<"b", "r", "i", "l", "l", "i", "a", "n", "t">>, <<"r", "e", "c", "o", "m", "m", "e", "n", "d">>, <<"c", "o", "o", "l">> }

negativeWords ==
    { <<"b", "a", "d">>, <<"t", "e", "r", "r", "i", "b", "l", "e">>, <<"a", "w", "f", "u", "l">>, <<"h", "a", "t", "e">>,
      <<"h", "a", "t", "e", "d">>, <<"d", "i", "s", "l", "i", "k", "e">>, <<"d", "i", "s", "l", "i", "k", "e", "d">>, <<"w", "o", "r", "s", "t">>,
      <<"p", "o", "o", "r">>, <<"s", "a", "d">>, <<"a", "n", "g", "r", "y">>, <<"d", "i", "s", "a", "p", "p", "o", "i", "n", "t", "e", "d">>,
      <<"d", "i", "s", "a", "p", "p", "o", "i", "n", "t", "i", "n", "g">>, <<"b", "r", "o", "k", "e", "n">>, <<"b", "u", "g">>, <<"s", "p", "a", "m">>,
      <<"b", "o", "r", "i", "n", "g">>, <<"a", "n", "n", "o", "y", "i", "n", "g">>, <<"t", "r", "a", "s", "h">>, <<"w", "a", "s", "t", "e">> }

negations ==
    { <<"n", "o", "t">>, <<"n", "e", "v", "e", "r">>, <<"n", "o">>, <<"d", "o", "n", "t">>,
      <<"d", "o", "e", "s", "n", "t">>, <<"d", "i", "d", "n", "t">>, <<"i", "s", "n", "t">>, <<"w", "a", "s", "n", "t">>,
      <<"c", "a", "n", "t">>, <<"c", "a", "n", "n", "o", "t">>, <<"w", "o", "n", "t">>, <<"w", "o", "n", "'", "t">> }

intensifiers ==
    { <<"v", "e", "r", "y">>, <<"r", "e", "a", "l", "l", "y">>, <<"e", "x", "t", "r", "e", "m", "e", "l", "y">>, <<"s", "u", "p", "e", "r">>,
      <<"t", "o", "t", "a", "l", "l", "y">>, <<"c", "o", "m", "p", "l", "e", "t", "e", "l", "y">>, <<"a", "b", "s", "o", "l", "u", "t", "e", "l", "y">>, <<"s", "o">> }

\* Math.abs, Math.min, Math.max
abs(x) == IF x < 0 THEN -x ELSE x

min(a, b) == IF a < b THEN a ELSE b

max(a, b) == IF a > b THEN a ELSE b

(***************************************************************************)
(* Emoji pass                                                              *)
(***************************************************************************)
\* Array.from(text): one string per code point
ArrayFrom(text) == [i \in 1..Len(text) |-> <<text[i]>>]

posEmoji(text) ==
    Cardinality({i \in 1..Len(text) : ArrayFrom(text)[i] \in positiveEmojis})

negEmoji(text) ==
    Cardinality({i \in 1..Len(text) :
                    /\ ArrayFrom(text)[i] \notin positiveEmojis
                    /\ ArrayFrom(text)[i] \in negativeEmojis})

neuEmoji(text) ==
    Cardinality({i \in 1..Len(text) :
                    /\ ArrayFrom(text)[i] \notin positiveEmojis
                    /\ ArrayFrom(text)[i] \notin negativeEmojis
                    /\ ArrayFrom(text)[i] \in neutralEmojis})

totalEmoji(text) == posEmoji(text) + negEmoji(text) + neuEmoji(text)

(***************************************************************************)
(* Word pass                                                               *)
(***************************************************************************)
\* Variant: the class also lists "!", so exclamation marks stay in the text.
KeptBang(c) ==
    \/ \E i \in 1..Len(LowerCase) : LowerCase[i] = c
    \/ c \in Digits
    \/ c \in {"'", "_", "!"}
    \/ c \in Whitespace

\* [a-z0-9'_\s]: the characters the regular expression leaves in place
Kept(c) ==
    \/ \E i \in 1..Len(LowerCase) : LowerCase[i] = c
    \/ c \in Digits
    \/ c \in {"'", "_"}
    \/ c \in Whitespace

\* s.toLowerCase().replace(/[^a-z0-9'_\s]/g, " "): the expression has no u
\* flag, so it replaces each UTF-16 code unit, two for an astral code point.
RECURSIVE normalize(_)
normalize(s) ==
    IF s = <<>> THEN <<>>
    ELSE LET c == toLowerCase(Head(s))
         IN  (IF Kept(c) THEN <<c>>
              ELSE IF c \in Astral THEN <<SP, SP>>
              ELSE <<SP>>) \o normalize(Tail(s))

\* s.split(/\s+/): the pieces between the runs of white space, empty pieces
\* at the ends included
RECURSIVE split(_, _, _)
split(s, cur, out) ==
    IF s = <<>> THEN Append(out, cur)
    ELSE IF Head(s) \in Whitespace
         THEN split(trimStart(Tail(s)), <<>>, Append(out, cur))
         ELSE split(Tail(s), Append(cur, Head(s)), out)

\* Variant: .filter(Boolean) left out, the empty pieces stay.
tokensOfUnfiltered(text) == split(normalize(text), <<>>, <<>>)

\* normalize(text).split(/\s+/).filter(Boolean)
tokensOf(text) ==
    SelectSeq(split(normalize(text), <<>>, <<>>), LAMBDA t : t # <<>>)

\* Variant: the negation test looks at the two preceding tokens.
weightWindow(tokens, i) ==
    LET w    == tokens[i]
        base == IF w \in positiveWords THEN 1000
                ELSE IF w \in negativeWords THEN -1000
                ELSE 0
        w1   == IF i > 1 /\ tokens[i - 1] \in intensifiers
                THEN (base * 16) \div 10 ELSE base
    IN  IF \/ i > 1 /\ tokens[i - 1] \in negations
           \/ i > 2 /\ tokens[i - 2] \in negations
        THEN -w1 ELSE w1

\* the weight one token adds to score, in thousandths
weight(tokens, i) ==
    LET w    == tokens[i]
        base == IF w \in positiveWords THEN 1000
                ELSE IF w \in negativeWords THEN -1000
                ELSE 0
        w1   == IF i > 1 /\ tokens[i - 1] \in intensifiers
                THEN (base * 16) \div 10 ELSE base
    IN  IF i > 1 /\ tokens[i - 1] \in negations THEN -w1 ELSE w1

RECURSIVE scoreUpTo(_, _)
scoreUpTo(tokens, n) ==
    IF n = 0 THEN 0 ELSE scoreUpTo(tokens, n - 1) + weight(tokens, n)

\* Variant: "score = weight" for "score += weight": the last lexicon word's
\* weight alone.
RECURSIVE lastWeightUpTo(_, _)
lastWeightUpTo(tokens, n) ==
    IF n = 0 THEN 0
    ELSE IF tokens[n] \in positiveWords \cup negativeWords
         THEN weight(tokens, n)
         ELSE lastWeightUpTo(tokens, n - 1)

wordScoreLast(tokens) == lastWeightUpTo(tokens, Len(tokens))

\* score after the loop, in thousandths
wordScore(tokens) == scoreUpTo(tokens, Len(tokens))

\* Math.sqrt(n) in thousandths, truncated
RECURSIVE sqrtSearch(_, _, _)
sqrtSearch(x, lo, hi) ==
    IF lo >= hi THEN lo
    ELSE LET mid == (lo + hi + 1) \div 2
         IN  IF mid * mid <= x THEN sqrtSearch(x, mid, hi)
             ELSE sqrtSearch(x, lo, mid - 1)

sqrt(n) == sqrtSearch(n * 1000000, 0, 1000 * (n + 1))

wordSentiment(score) ==
    IF score > 500 THEN "positive"
    ELSE IF score < -500 THEN "negative"
    ELSE "neutral"

\* Variant: score used where its magnitude wordMagnitude belongs.
wordConfidenceSigned(score, n) ==
    LET den   == max(1000, sqrt(n))
        ratio == IF score >= den THEN 1000000
                 ELSE ((score * 100000) \div den) * 10
    IN  min(950000, 600000 + (ratio * 35) \div 100)

\* Math.min(0.95, 0.6 + Math.min(1, |score| / Math.max(1, sqrt(n))) * 0.35),
\* in millionths
wordConfidence(score, n) ==
    LET den   == max(1000, sqrt(n))
        ratio == IF abs(score) >= den THEN 1000000
                 ELSE ((abs(score) * 100000) \div den) * 10
    IN  min(950000, 600000 + (ratio * 35) \div 100)

(***************************************************************************)
(* Combination                                                             *)
(***************************************************************************)
\* Variant: >= for >, a tie counts as dominance.
emojiSentimentTies(p, n, u) ==
    IF p >= n /\ p >= u THEN "positive"
    ELSE IF n >= p /\ n >= u THEN "negative"
    ELSE "neutral"

emojiSentiment(p, n, u) ==
    IF p > n /\ p > u THEN "positive"
    ELSE IF n > p /\ n > u THEN "negative"
    ELSE "neutral"

\* 0.75 + Math.min(0.2, totalEmoji / 10), in millionths
emojiConfidenceBase(total) == 750000 + min(200000, total * 100000)

\* Math.min(0.98, emojiConfidenceBase * 0.75 + wordConfidence * 0.25)
combinedConfidence(total, wc) ==
    min(980000, (emojiConfidenceBase(total) * 75) \div 100 + (wc * 25) \div 100)

\* Variant: the agreement bonus left out.
boostedConfidenceNone(cc) == cc

\* Math.min(0.99, combinedConfidence + 0.03)
boostedConfidence(cc) == min(990000, cc + 30000)

\* Variant: >= 0 for >= 1, the emoji label wins a tie too.
emojiLeanAlways(p, n) == abs(p - n) >= 0

\* Math.abs(posEmoji - negEmoji) >= 1
emojiLean(p, n) == abs(p - n) >= 1

Null == [null |-> TRUE]

Result(s, c) == [sentiment |-> s, confidence |-> c]

detectSentiment(text) ==
    IF text = <<>> \/ trim(text) = <<>> THEN Null
    ELSE
    LET p      == posEmoji(text)
        n      == negEmoji(text)
        u      == neuEmoji(text)
        total  == totalEmoji(text)
        tokens == tokensOf(text)
        score  == wordScore(tokens)
        ws     == wordSentiment(score)
        wc     == wordConfidence(score, Len(tokens))
        es     == emojiSentiment(p, n, u)
        cc     == combinedConfidence(total, wc)
    IN  IF total > 0
        THEN IF ws # "neutral" /\ ws = es
             THEN Result(es, boostedConfidence(cc))
             ELSE IF emojiLean(p, n)
             THEN Result(es, cc)
             ELSE Result(ws, wc)
        ELSE IF Len(tokens) = 0 THEN Null
        ELSE Result(ws, wc)

(***************************************************************************)
(* The component                                                           *)
(***************************************************************************)
EmptyMsg == "Please enter a comment to analyze"

UndetectedMsg ==
    "Couldn't detect sentiment. Try a longer comment or add some context/emojis."

\* The strings typed or pasted into the textarea: up to MaxFragments (for the
\* classifier) or MaxEditFragments (for the component) of these, concatenated.
Fragments ==
    { <<SP>>, <<"U+000A">>, <<"!">>, <<"'">>, <<"_">>, <<"o", "k">>,
      <<"g", "o", "o", "d">>, <<"B", "a", "d">>,
      <<"n", "o", "t", SP>>, <<"v", "e", "r", "y", SP>>,
      <<"U+1F60A">>, <<"U+1F622">>, <<"U+1F610">>,
      <<"U+2764", "U+FE0F">> }

EditFragments == { <<SP>>, <<"!">>, <<"g", "o", "o", "d">>, <<"U+1F60A">> }

MaxFragments == 3

MaxEditFragments == 1

RECURSIVE Concat(_, _)
Concat(frags, k) ==
    IF k = 0 THEN {<<>>}
    ELSE LET shorter == Concat(frags, k - 1)
         IN  shorter \cup {t \o f : t \in shorter, f \in frags}

Texts == Concat(Fragments, MaxFragments)

EditTexts == Concat(EditFragments, MaxEditFragments)

Init ==
    /\ comment = <<>>
    /\ result = Null
    /\ loading = FALSE
    /\ timers = <<>>
    /\ toast = ""
    /\ arg = <<>>
    /\ detected = Null

\* onChange={(e) => setComment(e.target.value)}
onChange(value) ==
    /\ value # comment
    /\ comment' = value
    /\ UNCHANGED <<result, loading, timers, toast, arg, detected>>

\* onClick={analyzeSentiment}; the button is disabled while loading
analyzeSentiment ==
    /\ ~loading
    /\ IF trim(comment) = <<>>
       THEN /\ toast' = EmptyMsg
            /\ UNCHANGED <<comment, result, loading, timers, arg, detected>>
       ELSE /\ loading' = TRUE
            /\ timers' = Append(timers, comment)
            /\ UNCHANGED <<comment, result, toast, arg, detected>>

\* Variant: the callback reads the textarea's comment when it runs.
closureCommentCurrent(captured, current) == current

\* The comment the timer callback reads: the one of the render that created
\* the callback (captured), not the one in the textarea when it runs (current).
closureComment(captured, current) == captured

\* the callback given to setTimeout, 600 ms later
timerFires ==
    /\ timers # <<>>
    /\ LET text == closureComment(Head(timers), comment)
           d    == detectSentiment(text)
       IN  /\ arg' = <<text>>
           /\ detected' = d
           /\ IF d # Null
              THEN result' = d /\ toast' = toast
              ELSE result' = result /\ toast' = UndetectedMsg
    /\ loading' = FALSE
    /\ timers' = Tail(timers)
    /\ UNCHANGED comment

Next ==
    \/ \E value \in EditTexts : onChange(value)
    \/ analyzeSentiment
    \/ timerFires

Spec == Init /\ [][Next]_vars

\* detectSentiment applied directly to each input string
InitClassify ==
    /\ comment \in Texts
    /\ result = Null
    /\ loading = FALSE
    /\ timers = <<>>
    /\ toast = ""
    /\ arg = <<>>
    /\ detected = Null

classify ==
    /\ arg = <<>>
    /\ arg' = <<comment>>
    /\ detected' = detectSentiment(comment)
    /\ UNCHANGED <<comment, result, loading, timers, toast>>

NextClassify == classify

SpecClassify == InitClassify /\ [][NextClassify]_vars

(***************************************************************************)
(* Properties                                                              *)
(***************************************************************************)
\* detectSentiment has been called; Input is the string it was called with.
Called == arg # <<>>

Input == arg[1]

AllWhitespace(t) == \A i \in 1..Len(t) : t[i] \in Whitespace

\* The characters that reach a token: ASCII letters of either case, digits,
\* apostrophe and underscore.
WordChars ==
    {UpperCase[i] : i \in 1..Len(UpperCase)}
        \cup {LowerCase[i] : i \in 1..Len(LowerCase)}
        \cup Digits \cup {"'", "_"}

NoWordChar(t) == \A i \in 1..Len(t) : t[i] \notin WordChars

\* Unicode punctuation (P*) and symbols (S*) among the code points in use
PunctOrSymbol ==
    {"!", "?", "-", ".", ",", "'", "_"} \cup Astral
        \cup {"U+2764", "U+2639", "U+2728"}

\* the occurrences in t of the emoji listed in set
Occurrences(t, set) ==
    Cardinality({ie \in (1..Len(t)) \X set :
                    /\ ie[1] + Len(ie[2]) - 1 <= Len(t)
                    /\ SubSeq(t, ie[1], ie[1] + Len(ie[2]) - 1) = ie[2]})

Dominant(p, n, u) ==
    IF p > n /\ p > u THEN "positive"
    ELSE IF n > p /\ n > u THEN "negative"
    ELSE "neutral"

LexicalLabel(t) == wordSentiment(wordScore(tokensOf(t)))

LexicalConfidence(t) ==
    wordConfidence(wordScore(tokensOf(t)), Len(tokensOf(t)))

Sign(x) == IF x > 0 THEN 1 ELSE IF x < 0 THEN -1 ELSE 0

Base(w) ==
    IF w \in positiveWords THEN 1 ELSE IF w \in negativeWords THEN -1 ELSE 0

InsertAt(s, i, w) == SubSeq(s, 1, i) \o <<w>> \o SubSeq(s, i + 1, Len(s))

Not == <<"n", "o", "t">>

Very == <<"v", "e", "r", "y">>

Good == <<"g", "o", "o", "d">>

Bad == <<"b", "a", "d">>

\* C1: detectSentiment returns null exactly when the input is empty or all
\* white space, or has no counted emoji and no character that reaches a
\* token; on every other input it returns a (sentiment, confidence) result.
C1_NullIffNoSignal ==
    Called =>
        /\ detected = Null <=>
              \/ AllWhitespace(Input)
              \/ totalEmoji(Input) = 0 /\ NoWordChar(Input)
        /\ detected # Null =>
              /\ detected.sentiment \in {"positive", "neutral", "negative"}
              /\ detected.confidence \in Int

\* an input of punctuation only was classified and gave null
C1_Witness ==
    /\ Called
    /\ ~AllWhitespace(Input)
    /\ totalEmoji(Input) = 0
    /\ NoWordChar(Input)
    /\ detected = Null

\* C2: a returned confidence lies in [0, 0.99], and in [0.6, 0.95] when the
\* input has no counted emoji (the purely lexical result).
C2_ConfidenceRange ==
    (Called /\ detected # Null) =>
        /\ 0 <= detected.confidence /\ detected.confidence <= 990000
        /\ totalEmoji(Input) = 0 =>
              /\ 600000 <= detected.confidence
              /\ detected.confidence <= 950000

\* a lexical result below the cap, from a negative score
C2_Witness ==
    /\ Called
    /\ detected # Null
    /\ totalEmoji(Input) = 0
    /\ wordScore(tokensOf(Input)) < 0
    /\ detected.confidence > 600000
    /\ detected.confidence < 950000

\* C3: every occurrence in the input of an emoji listed in one of the three
\* sets adds exactly one to the counter of its set, so each counter equals
\* the number of occurrences of its set's emoji.
C3_TallyCountsListedEmoji ==
    Called =>
        /\ posEmoji(Input) = Occurrences(Input, positiveEmojis)
        /\ negEmoji(Input) = Occurrences(Input, negativeEmojis)
        /\ neuEmoji(Input) = Occurrences(Input, neutralEmojis)

\* C4 as stated: an input with no emoji whose characters other than white
\* space are all punctuation or symbols gives null.
C4_PunctuationOnlyIsNull ==
    (/\ Called
     /\ Occurrences(Input, positiveEmojis \cup negativeEmojis \cup neutralEmojis) = 0
     /\ \A i \in 1..Len(Input) : Input[i] \in Whitespace \cup PunctOrSymbol)
        => detected = Null

\* C4 amended: an input with no counted emoji whose characters other than
\* white space are all punctuation or symbols other than the apostrophe and
\* the underscore gives null.
C4_PunctuationExceptQuoteUnderscoreIsNull ==
    (/\ Called
     /\ totalEmoji(Input) = 0
     /\ \A i \in 1..Len(Input) :
           Input[i] \in Whitespace \cup (PunctOrSymbol \ {"'", "_"}))
        => detected = Null

\* "! !" was classified and gave null
C4_Witness ==
    /\ Called
    /\ Input = <<"!", SP, "!">>
    /\ detected = Null

\* C5: with at least one emoji counted and positiveCount # negativeCount the
\* returned sentiment is the dominant emoji label, whatever the lexical
\* label is.
C5_EmojiLeanDecides ==
    (/\ Called
     /\ totalEmoji(Input) > 0
     /\ posEmoji(Input) # negEmoji(Input))
        => /\ detected # Null
           /\ detected.sentiment =
                 Dominant(posEmoji(Input), negEmoji(Input), neuEmoji(Input))

\* more positive than negative emoji beside a negative word: positive
C5_Witness ==
    /\ Called
    /\ posEmoji(Input) > negEmoji(Input)
    /\ LexicalLabel(Input) = "negative"
    /\ detected # Null
    /\ detected.sentiment = "positive"

\* C6: with at least one emoji counted and positiveCount = negativeCount the
\* result is the lexical label with the lexical confidence.
C6_EmojiTieFallsBackToWords ==
    (/\ Called
     /\ totalEmoji(Input) > 0
     /\ posEmoji(Input) = negEmoji(Input))
        => detected = Result(LexicalLabel(Input), LexicalConfidence(Input))

\* as many positive as negative emoji beside a negative word: the result is
\* negative with the lexical confidence, which differs from the combined one
C6_Witness ==
    /\ Called
    /\ totalEmoji(Input) > 0
    /\ posEmoji(Input) = negEmoji(Input)
    /\ detected = Result("negative", LexicalConfidence(Input))
    /\ detected.confidence #
          combinedConfidence(totalEmoji(Input), LexicalConfidence(Input))

\* C7: with at least one emoji counted and a non-neutral lexical label equal
\* to the dominant emoji label, the result is that label with confidence
\* min(0.99, combinedConfidence + 0.03), strictly above combinedConfidence.
C7_AgreementBonus ==
    (/\ Called
     /\ totalEmoji(Input) > 0
     /\ LexicalLabel(Input) # "neutral"
     /\ LexicalLabel(Input) =
           Dominant(posEmoji(Input), negEmoji(Input), neuEmoji(Input)))
        => LET cc == combinedConfidence(totalEmoji(Input),
                                        LexicalConfidence(Input))
           IN  /\ detected = Result(LexicalLabel(Input),
                                    min(990000, cc + 30000))
               /\ detected.confidence > cc

\* a positive emoji beside "good"
C7_Witness ==
    /\ Called
    /\ posEmoji(Input) = 1
    /\ totalEmoji(Input) = 1
    /\ tokensOf(Input) = <<Good>>
    /\ detected = Result("positive", 905000)

\* C8: a lexicon word's contribution has the sign opposite to its base
\* weight exactly when the token right before it is a negation; "not good"
\* scores below 0 and is negative, "not bad" scores above 0 and is positive,
\* and in "not very good" the word is not negated.
C8_NegationLooksOneTokenBack ==
    Called =>
        LET toks == tokensOf(Input)
        IN  /\ \A i \in 1..Len(toks) :
                  Base(toks[i]) # 0 =>
                      (Sign(weight(toks, i)) = -Base(toks[i])
                          <=> (i > 1 /\ toks[i - 1] \in negations))
            /\ toks = <<Not, Good>> =>
                  /\ wordScore(toks) < 0
                  /\ LexicalLabel(Input) = "negative"
            /\ toks = <<Not, Bad>> =>
                  /\ wordScore(toks) > 0
                  /\ LexicalLabel(Input) = "positive"
            /\ toks = <<Not, Very, Good>> => wordScore(toks) = 1600

\* "not very good" was classified: positive
C8_Witness ==
    /\ Called
    /\ tokensOf(Input) = <<Not, Very, Good>>
    /\ weight(tokensOf(Input), 3) = 1600
    /\ detected # Null
    /\ detected.sentiment = "positive"

\* C9: in a token sequence without negation tokens, one more positive word
\* inserted at any position never lowers the lexical score.
C9_PositiveWordNeverLowersScore ==
    Called =>
        LET toks == tokensOf(Input)
            s    == wordScore(toks)
        IN  (\A i \in 1..Len(toks) : toks[i] \notin negations)
                => \A i \in 0..Len(toks) : \A w \in positiveWords :
                      wordScore(InsertAt(toks, i, w)) >= s

\* "very good": a positive word put between the two takes the intensifier
\* from "good", and the score still rises
C9_Witness ==
    /\ Called
    /\ tokensOf(Input) = <<Very, Good>>
    /\ wordScore(tokensOf(Input)) = 1600
    /\ wordScore(InsertAt(tokensOf(Input), 1, <<"j", "o", "y">>)) = 2600

\* C10: detectSentiment is never called with an empty or all-white-space
\* string; a click on such a comment sets the error toast and changes nothing
\* else; a started timer holds the comment of the click and classifies that
\* one, whatever the textarea holds by then.
C10_ClassifierNeverSeesBlank ==
    /\ [](Called => ~AllWhitespace(Input))
    /\ [][(AllWhitespace(comment) /\ timers = <<>> /\ comment' = comment)
             => /\ toast' = EmptyMsg
                /\ UNCHANGED <<result, loading, timers, arg, detected>>]_vars
    /\ [][Len(timers') > Len(timers)
             => timers' = Append(timers, comment) /\ ~AllWhitespace(comment)]_vars
    /\ [][Len(timers') < Len(timers) => arg' = <<Head(timers)>>]_vars

\* a timer is pending for a comment and the textarea has been cleared since
C10_Witness ==
    /\ timers # <<>>
    /\ loading
    /\ ~AllWhitespace(Head(timers))
    /\ comment = <<>>

====
